---- MODULE Spec2Model ----
(***************************************************************************)
(* hodor: an in-memory key/value cache with optional TTL expiration.       *)
(*                                                                         *)
(* Two implementations of trait Cache are modelled from src/src/lib.rs:    *)
(*   HashCache            - single threaded, HashMap + Vec                 *)
(*   ThreadSafeHashCache  - the same data behind two RwLocks               *)
(* The variable `cache` records which of the two was constructed; the      *)
(* two share the variables store / expiring, exactly as the two structs    *)
(* share the field names.                                                  *)
(*                                                                         *)
(* Time is a discrete monotonic clock `now` (std::time::Instant).          *)
(* rand::seq::index::sample is a nondeterministic choice of `amount`       *)
(* distinct indices of 0..length, in any order (the crate returns them     *)
(* fully shuffled).                                                        *)
(* A panic (assert!, Vec::remove out of bounds, expect on a poisoned       *)
(* lock) ends the calling thread: pc = "panicked".                         *)
(*                                                                         *)
(* insert, insert_ttl and vacuum take &mut self, so safe Rust callers of   *)
(* ThreadSafeHashCache are serialised by whatever hands out the &mut (the  *)
(* test wraps the cache in an outer RwLock).  The inner RwLocks are what   *)
(* the struct itself promises, and the ThreadSafeHashCache actions         *)
(* interleave at the granularity of those locks: one action per critical   *)
(* section.                                                                *)
(***************************************************************************)
EXTENDS Integers, Sequences, FiniteSets, TLC

\* ---------------------------------------------------------------- bounds
MaxTime == 2
MaxExpiring == 3

Keys == {"id", "id2"}
\* ThreadSafeHashCache is explored with threads racing on one key
SharedKeys == {"id"}
Values == {"secret", "secret2"}
\* HashCache is called with either value for "id" and one value for "id2"
KeyValues == {<<"id", "secret">>, <<"id", "secret2">>, <<"id2", "secret2">>}
\* ttl: Duration; zero is legal
Ttls == {0, 1}
\* count: usize; fewer than, as many as, and more than the candidates
Counts == {0, 1, 2}
\* retry_threshold : f32, as an exact fraction <<numerator, denominator>>.
\* With the small integers used here expired_count/count and the threshold
\* never fall within one f32 ulp of each other unless they are equal, so
\* the exact comparison agrees with the f32 one.
Thresholds == {<<0, 1>>, <<1, 4>>, <<3, 5>>, <<1, 1>>}

HashCacheKind == "HashCache"
ThreadSafeKind == "ThreadSafeHashCache"
\* HashCache is used by one thread.  ThreadSafeHashCache is used as its
\* test uses it: a background thread that calls vacuum and a foreground
\* thread that calls insert, insert_ttl and get.
Foreground == "foreground"
Background == "background"
Main == "main"
Threads(c) == IF c = HashCacheKind THEN {Main} ELSE {Foreground, Background}

VARIABLES
    cache,      \* which implementation was constructed
    store,      \* HashMap<K, Value<V>>: a function on the keys present
    expiring,   \* Vec<K>: the candidate list
    now,        \* the monotonic clock
    readers,    \* threads holding expiring.read() (ThreadSafeHashCache)
    poisoned,   \* the RwLocks poisoned by a panicking writer
    pc,         \* per thread: where it is
    local,      \* per thread: the locals of the call in progress
    result      \* the step just taken: thread, operation, what it returned

vars == <<cache, store, expiring, now, readers, poisoned, pc, local, result>>

\* ------------------------------------------------------------ data types
\* enum ExpireMeta
Persistent == [kind |-> "Persistent"]
Expires(inserted, ttl) == [kind |-> "Expires", inserted |-> inserted, ttl |-> ttl]
\* struct Value<V>
Value(v, e) == [value |-> v, expires |-> e]

\* Option<T>: None is <<>>, Some(x) is <<x>>
None == <<>>
Some(x) == <<x>>

EmptyMap == [k \in {} |-> Value("secret", Persistent)]

\* a variant of push that keeps one entry per key
VecPush_dedup(v, key) ==
    IF key \in {v[i] : i \in 1..Len(v)} THEN v ELSE Append(v, key)

\* HashMap::insert / HashMap::remove / Vec::push
MapInsert(st, key, val) == [k \in (DOMAIN st) \cup {key} |-> IF k = key THEN val ELSE st[k]]
MapRemove(st, key) == [k \in (DOMAIN st) \ {key} |-> st[k]]
VecPush(v, key) == Append(v, key)
\* Vec::remove(index), index 0-based and in range
VecRemove(v, index) == [j \in 1..(Len(v) - 1) |-> IF j <= index THEN v[j] ELSE v[j + 1]]

\* ------------------------------------------------------ expiration policy
\* Variants of expired, each wrong in one decision: >= for >, the operands
\* swapped, Persistent treated as expired.
expired_ge(st, key, t) ==
    IF key \in DOMAIN st
    THEN IF st[key].expires.kind = "Expires"
         THEN (t - st[key].expires.inserted) >= st[key].expires.ttl
         ELSE FALSE
    ELSE TRUE

expired_swapped(st, key, t) ==
    IF key \in DOMAIN st
    THEN IF st[key].expires.kind = "Expires"
         THEN st[key].expires.ttl > (t - st[key].expires.inserted)
         ELSE FALSE
    ELSE TRUE

expired_persistent(st, key, t) ==
    IF key \in DOMAIN st
    THEN IF st[key].expires.kind = "Expires"
         THEN (t - st[key].expires.inserted) > st[key].expires.ttl
         ELSE TRUE
    ELSE TRUE

\* HashCache::expired / ThreadSafeHashCache::expired at clock reading t
expired(st, key, t) ==
    IF key \in DOMAIN st
    THEN IF st[key].expires.kind = "Expires"
         THEN (t - st[key].expires.inserted) > st[key].expires.ttl
         ELSE FALSE
    ELSE TRUE

\* ---------------------------------------------------------------- sampling
\* rand::seq::index::sample(rng, length, amount): amount distinct indices
\* of 0..length, in random order
RECURSIVE Sample(_, _)
Sample(length, amount) ==
    IF amount = 0
    THEN {<<>>}
    ELSE UNION {{Append(s, x) : x \in (0..(length - 1)) \ {s[i] : i \in 1..Len(s)}} :
                    s \in Sample(length, amount - 1)}

\* every draw sample can make, by length and amount (amount <= length)
Samples ==
    [length \in 0..MaxExpiring |-> [amount \in 0..length |-> Sample(length, amount)]]

\* let mut amount = count; if count > len { amount = len }
Amount(count, len) == IF count > len THEN len ELSE count

\* The for loop of HashCache::vacuum_sample over samples[i..]: the store it
\* leaves and the indices it pushes to expired_indices, in sample order.
RECURSIVE scan_samples(_, _, _, _, _)
scan_samples(st, exp, samples, i, t) ==
    IF i > Len(samples)
    THEN [store |-> st, expired_indices |-> <<>>]
    ELSE LET index == samples[i] IN
         IF index < Len(exp) /\ expired(st, exp[index + 1], t)
         THEN LET r == scan_samples(MapRemove(st, exp[index + 1]), exp, samples, i + 1, t)
              IN  [store |-> r.store, expired_indices |-> <<index>> \o r.expired_indices]
         ELSE scan_samples(st, exp, samples, i + 1, t)

\* a variant in which the lazy map is counted without its closure being run
remove_indices_not_run(v, indices, i) ==
    [expiring |-> v, panicked |-> FALSE, count |-> Len(indices)]

\* expired_indices.iter().map(|i| expiring.remove(*i)).count(): the removals
\* run one after the other on the shrinking Vec, in the order the indices
\* were pushed; Vec::remove panics on an index that is out of bounds.
RECURSIVE remove_indices(_, _, _)
remove_indices(v, indices, i) ==
    IF i > Len(indices)
    THEN [expiring |-> v, panicked |-> FALSE, count |-> Len(indices)]
    ELSE IF indices[i] >= Len(v)
         THEN [expiring |-> v, panicked |-> TRUE, count |-> i - 1]
         ELSE remove_indices(VecRemove(v, indices[i]), indices, i + 1)

\* HashCache::vacuum_sample once the indices are drawn: the store and the
\* candidate list it leaves, whether it panicked, and the count it returns
vacuum_sample(st, exp, samples, t) ==
    LET s == scan_samples(st, exp, samples, 1, t)
        r == remove_indices(exp, s.expired_indices, 1)
    IN  [store |-> s.store, expiring |-> r.expiring,
         panicked |-> r.panicked, count |-> r.count]

\* ------------------------------------------------------------ vacuum loop
\* the asserts without the second one (a variant)
assert_threshold_lower_only(th) == th[1] > 0

\* assert!(retry_threshold > 0.0); assert!(retry_threshold < 1.0);
assert_threshold(th) == th[1] > 0 /\ th[1] < th[2]

\* a variant in which the NaN of count = 0 compares as greater
ratio_exceeds_nan(expired_count, count, th) ==
    count = 0 \/ expired_count * th[2] > th[1] * count

\* while expired_count/(count as f32) > retry_threshold
\* (count = 0 gives 0.0/0.0 = NaN, and NaN > x is false)
ratio_exceeds(expired_count, count, th) ==
    count # 0 /\ expired_count * th[2] > th[1] * count

\* ------------------------------------------------------------ call results
NoLocal == [op |-> "none"]
\* a step that completes no call
Step(p, op) == [thread |-> p, op |-> op]

\* what get hands back: the return value and the values passed to f
get_consumer_first(st, key, t) ==
    IF key \in DOMAIN st
    THEN [ret |-> ~expired(st, key, t), consumed |-> <<st[key].value>>]
    ELSE [ret |-> FALSE, consumed |-> <<>>]

\* HashCache::get as a function of the store it reads
get(st, key, t) ==
    IF expired(st, key, t)
    THEN [ret |-> FALSE, consumed |-> <<>>]
    ELSE IF key \in DOMAIN st
         THEN [ret |-> TRUE, consumed |-> <<st[key].value>>]
         ELSE [ret |-> FALSE, consumed |-> <<>>]

\* let inserted = store.insert(..)?; Some(inserted.value)
old_value_unless_expired(st, key, t) ==
    IF key \in DOMAIN st /\ ~expired(st, key, t) THEN Some(st[key].value) ELSE None

old_value(st, key, t) ==
    IF key \in DOMAIN st THEN Some(st[key].value) ELSE None

\* the candidate-list entries whose key is expired or absent
ExpiredEntries(st, exp, t) == {i \in 1..Len(exp) : expired(st, exp[i], t)}

\* ------------------------------------------------------------------- Init
Init ==
    /\ cache \in {HashCacheKind, ThreadSafeKind}
    /\ store = EmptyMap
    /\ expiring = <<>>
    /\ now = 0
    /\ readers = {}
    /\ poisoned = {}
    /\ pc = [p \in Threads(cache) |-> "idle"]
    /\ local = [p \in Threads(cache) |-> NoLocal]
    /\ result = Step("none", "none")

\* the clock advances
Tick ==
    /\ now < MaxTime
    /\ \E p \in Threads(cache) : pc[p] # "panicked"
    /\ now' = now + 1
    /\ result' = Step("none", "none")
    /\ UNCHANGED <<cache, store, expiring, readers, poisoned, pc, local>>

\* ============================================================== HashCache
HashCache_insert(p, key, value) ==
    /\ cache = HashCacheKind /\ pc[p] = "idle"
    /\ store' = MapInsert(store, key, Value(value, Persistent))
    /\ result' = [thread |-> p, op |-> "insert", key |-> key, value |-> value,
                  ret |-> old_value(store, key, now)]
    /\ UNCHANGED <<cache, expiring, now, readers, poisoned, pc, local>>

HashCache_insert_ttl(p, key, value, ttl) ==
    /\ cache = HashCacheKind /\ pc[p] = "idle"
    /\ Len(expiring) < MaxExpiring
    /\ expiring' = VecPush(expiring, key)
    /\ store' = MapInsert(store, key, Value(value, Expires(now, ttl)))
    /\ result' = [thread |-> p, op |-> "insert_ttl", key |-> key, value |-> value,
                  ttl |-> ttl, ret |-> old_value(store, key, now)]
    /\ UNCHANGED <<cache, now, readers, poisoned, pc, local>>

\* a get that also evicts the expired entry it finds (what the code does not do)
HashCache_get_evicting(p, key) ==
    /\ cache = HashCacheKind /\ pc[p] = "idle"
    /\ LET g == get(store, key, now) IN
       result' = [thread |-> p, op |-> "get", key |-> key,
                  ret |-> g.ret, consumed |-> g.consumed]
    /\ store' = IF expired(store, key, now) THEN MapRemove(store, key) ELSE store
    /\ UNCHANGED <<cache, expiring, now, readers, poisoned, pc, local>>

HashCache_get(p, key) ==
    /\ cache = HashCacheKind /\ pc[p] = "idle"
    /\ LET g == get(store, key, now) IN
       result' = [thread |-> p, op |-> "get", key |-> key,
                  ret |-> g.ret, consumed |-> g.consumed]
    /\ UNCHANGED <<cache, store, expiring, now, readers, poisoned, pc, local>>

\* The locals of a vacuum call. count, th, expired_count are the code's;
\* passes counts the vacuum_sample calls made, and at / n0 / keys0 / e0
\* remember the clock, the candidate list's length, the keys of its
\* expired-or-absent entries and their number when the call was made.
VacuumLocal(count, th) ==
    [op |-> "vacuum", count |-> count, th |-> th, expired_count |-> count,
     passes |-> 0, at |-> now, n0 |-> Len(expiring),
     e0 |-> Cardinality(ExpiredEntries(store, expiring, now)),
     keys0 |-> {expiring[i] : i \in ExpiredEntries(store, expiring, now)}]

\* vacuum returns, or panics: the call is over
VacuumDone(p, l, status) ==
    /\ pc' = [pc EXCEPT ![p] = IF status = "returned" THEN "idle" ELSE "panicked"]
    /\ local' = [local EXCEPT ![p] = NoLocal]
    /\ result' = [thread |-> p, op |-> "vacuum", status |-> status, th |-> l.th,
                  count |-> l.count, passes |-> l.passes, at |-> l.at,
                  n0 |-> l.n0, e0 |-> l.e0, keys0 |-> l.keys0]

\* One turn of the while loop of HashCache::vacuum with the locals l, whose
\* condition holds: expired_count = self.vacuum_sample(count), then the
\* condition is evaluated again and the loop is left when it is false.
HashCache_vacuum_sample(p, l) ==
    \E r \in {vacuum_sample(store, expiring, samples, now) :
                samples \in Samples[Len(expiring)][Amount(l.count, Len(expiring))]} :
        LET m == [l EXCEPT !.expired_count = r.count, !.passes = l.passes + 1]
        IN  /\ store' = r.store
            /\ expiring' = r.expiring
            /\ IF r.panicked
               THEN VacuumDone(p, m, "panicked")
               ELSE IF ratio_exceeds(m.expired_count, m.count, m.th)
               THEN /\ pc' = [pc EXCEPT ![p] = "vacuum"]
                    /\ local' = [local EXCEPT ![p] = m]
                    /\ result' = [thread |-> p, op |-> "vacuum_sample"]
               ELSE VacuumDone(p, m, "returned")

\* vacuum is called: the two asserts, expired_count = count, and the first
\* turn of the loop
HashCache_vacuum(p, count, th) ==
    /\ cache = HashCacheKind /\ pc[p] = "idle"
    /\ LET l == VacuumLocal(count, th) IN
       IF ~assert_threshold(th)
       THEN /\ pc' = [pc EXCEPT ![p] = "panicked"]
            /\ result' = [thread |-> p, op |-> "vacuum", status |-> "assert_failed",
                          th |-> th]
            /\ UNCHANGED <<store, expiring, local>>
       ELSE IF ratio_exceeds(l.expired_count, l.count, l.th)
       THEN HashCache_vacuum_sample(p, l)
       ELSE /\ VacuumDone(p, l, "returned")
            /\ UNCHANGED <<store, expiring>>
    /\ UNCHANGED <<cache, now, readers, poisoned>>

\* a further turn of the loop
HashCache_vacuum_retry(p) ==
    /\ cache = HashCacheKind /\ pc[p] = "vacuum"
    /\ HashCache_vacuum_sample(p, local[p])
    /\ UNCHANGED <<cache, now, readers, poisoned>>

HashCacheCalls(p) ==
    \/ \E kv \in KeyValues : HashCache_insert(p, kv[1], kv[2])
    \/ \E kv \in KeyValues, ttl \in Ttls : HashCache_insert_ttl(p, kv[1], kv[2], ttl)
    \/ \E key \in Keys : HashCache_get(p, key)
    \/ \E count \in Counts, th \in Thresholds : HashCache_vacuum(p, count, th)
    \/ HashCache_vacuum_retry(p)

HashCacheNext == HashCacheCalls(Main)

\* ==================================================== ThreadSafeHashCache
\* Each action is one critical section: the lock is taken, the guarded data
\* is read or written, the guard is dropped.  Only vacuum_sample keeps a guard
\* across other lock operations: expiring.read() around its for loop.
\* A write lock on expiring is granted when no reader holds it.
\* a variant that takes a poisoned lock all the same
LockOk_ignore_poison(lock) == TRUE

\* lock.read()/.write().expect("lock poisoned")
LockOk(lock) == lock \notin poisoned

\* the thread unwinds: its read guard, if any, is dropped
Panic(p, res) ==
    /\ pc' = [pc EXCEPT ![p] = "panicked"]
    /\ local' = [local EXCEPT ![p] = NoLocal]
    /\ readers' = readers \ {p}
    /\ result' = res

\* insert, insert_ttl or get panicked instead of returning
Ended(p, call, status) == [thread |-> p, op |-> "panic", call |-> call, status |-> status]
\* vacuum returned (), or panicked
VacuumEnded(p, status, th) == [thread |-> p, op |-> "vacuum", status |-> status, th |-> th]

ThreadSafe_insert(p, key, value) ==
    /\ cache = ThreadSafeKind /\ pc[p] = "idle"
    /\ IF LockOk("store")
       THEN /\ store' = MapInsert(store, key, Value(value, Persistent))
            /\ result' = [thread |-> p, op |-> "insert", key |-> key, value |-> value,
                          ret |-> old_value(store, key, now)]
            /\ UNCHANGED <<pc, local, readers>>
       ELSE /\ Panic(p, Ended(p, "insert", "poisoned"))
            /\ UNCHANGED store
    /\ UNCHANGED <<cache, expiring, now, poisoned>>

\* insert_ttl, lines 207-210: the key is pushed under expiring.write()
ThreadSafe_insert_ttl(p, key, value, ttl) ==
    /\ cache = ThreadSafeKind /\ pc[p] = "idle"
    /\ Len(expiring) < MaxExpiring
    /\ readers = {}
    /\ IF LockOk("expiring")
       THEN /\ expiring' = VecPush(expiring, key)
            /\ pc' = [pc EXCEPT ![p] = "insert_ttl_store"]
            /\ local' = [local EXCEPT ![p] =
                    [op |-> "insert_ttl", key |-> key, value |-> value, ttl |-> ttl]]
            /\ result' = Step(p, "insert_ttl_push")
            /\ UNCHANGED readers
       ELSE /\ Panic(p, Ended(p, "insert_ttl", "poisoned"))
            /\ UNCHANGED expiring
    /\ UNCHANGED <<cache, store, now, poisoned>>

\* insert_ttl, lines 211-213: the value is stored under store.write()
\* (the caller goes on at `next`)
ThreadSafe_insert_ttl_store_then(p, next) ==
    /\ cache = ThreadSafeKind /\ pc[p] = "insert_ttl_store"
    /\ IF LockOk("store")
       THEN /\ store' = MapInsert(store, local[p].key,
                            Value(local[p].value, Expires(now, local[p].ttl)))
            /\ pc' = [pc EXCEPT ![p] = next]
            /\ local' = [local EXCEPT ![p] = NoLocal]
            /\ result' = [thread |-> p, op |-> "insert_ttl", key |-> local[p].key,
                          value |-> local[p].value, ttl |-> local[p].ttl,
                          ret |-> old_value(store, local[p].key, now)]
            /\ UNCHANGED readers
       ELSE /\ Panic(p, Ended(p, "insert_ttl", "poisoned"))
            /\ UNCHANGED store
    /\ UNCHANGED <<cache, expiring, now, poisoned>>

\* insert_ttl returns to a caller that makes further calls
ThreadSafe_insert_ttl_store(p) == ThreadSafe_insert_ttl_store_then(p, "idle")

\* get, lines 217-219: self.expired(&key) under store.read()
ThreadSafe_get(p, key) ==
    /\ cache = ThreadSafeKind /\ pc[p] = "idle"
    /\ IF ~LockOk("store")
       THEN Panic(p, Ended(p, "get", "poisoned"))
       ELSE IF expired(store, key, now)
       THEN /\ result' = [thread |-> p, op |-> "get", key |-> key,
                          ret |-> FALSE, consumed |-> <<>>]
            /\ UNCHANGED <<pc, local, readers>>
       ELSE /\ pc' = [pc EXCEPT ![p] = "get_fetch"]
            /\ local' = [local EXCEPT ![p] = [op |-> "get", key |-> key]]
            /\ result' = Step(p, "get_check")
            /\ UNCHANGED readers
    /\ UNCHANGED <<cache, store, expiring, now, poisoned>>

\* get, lines 222-226: store.read().get(&key), f called under the guard
ThreadSafe_get_fetch(p) ==
    /\ cache = ThreadSafeKind /\ pc[p] = "get_fetch"
    /\ IF ~LockOk("store")
       THEN Panic(p, Ended(p, "get", "poisoned"))
       ELSE /\ pc' = [pc EXCEPT ![p] = "idle"]
            /\ local' = [local EXCEPT ![p] = NoLocal]
            /\ result' = [thread |-> p, op |-> "get", key |-> local[p].key,
                          ret |-> local[p].key \in DOMAIN store,
                          consumed |-> IF local[p].key \in DOMAIN store
                                       THEN <<store[local[p].key].value>> ELSE <<>>]
            /\ UNCHANGED readers
    /\ UNCHANGED <<cache, store, expiring, now, poisoned>>

\* vacuum returns
ThreadSafe_vacuum_return(p, th) ==
    /\ pc' = [pc EXCEPT ![p] = "idle"]
    /\ local' = [local EXCEPT ![p] = NoLocal]
    /\ result' = VacuumEnded(p, "returned", th)
    /\ UNCHANGED readers

\* the keys stored with their ttl elapsed
StoredExpired(st, t) == {k \in DOMAIN st : expired(st, k, t)}

\* vacuum_sample, lines 163-176, entered with the while condition true: the
\* length is read under expiring.read(), the guard is dropped, and the
\* indices are sampled.  keys0 remembers the keys that were stored with
\* their ttl elapsed when vacuum was called.
ThreadSafe_vacuum_sample(p, count, th) ==
    IF LockOk("expiring")
    THEN \E samples \in Samples[Len(expiring)][Amount(count, Len(expiring))] :
            /\ pc' = [pc EXCEPT ![p] = "vacuum_lock"]
            /\ local' = [local EXCEPT ![p] =
                    [op |-> "vacuum", count |-> count, th |-> th,
                     samples |-> samples, i |-> 1, expired_indices |-> <<>>,
                     keys0 |-> IF pc[p] = "idle" THEN StoredExpired(store, now)
                               ELSE local[p].keys0]]
            /\ result' = Step(p, "vacuum_sample")
            /\ UNCHANGED readers
    ELSE Panic(p, VacuumEnded(p, "poisoned", th))

\* vacuum is called: the two asserts, expired_count = count, the while
\* condition, and the first critical section of vacuum_sample
ThreadSafe_vacuum(p, count, th) ==
    /\ cache = ThreadSafeKind /\ pc[p] = "idle"
    /\ IF ~assert_threshold(th)
       THEN Panic(p, VacuumEnded(p, "assert_failed", th))
       ELSE IF ratio_exceeds(count, count, th)
       THEN ThreadSafe_vacuum_sample(p, count, th)
       ELSE ThreadSafe_vacuum_return(p, th)
    /\ UNCHANGED <<cache, store, expiring, now, poisoned>>

\* a further turn of the while loop begins
ThreadSafe_vacuum_retry(p) ==
    /\ cache = ThreadSafeKind /\ pc[p] = "vacuum"
    /\ ThreadSafe_vacuum_sample(p, local[p].count, local[p].th)
    /\ UNCHANGED <<cache, store, expiring, now, poisoned>>

\* vacuum_sample, line 181: expiring.read() is taken for the for loop
ThreadSafe_vacuum_lock(p) ==
    /\ cache = ThreadSafeKind /\ pc[p] = "vacuum_lock"
    /\ IF LockOk("expiring")
       THEN /\ readers' = readers \cup {p}
            /\ pc' = [pc EXCEPT ![p] = "vacuum_scan"]
            /\ result' = Step(p, "vacuum_lock")
            /\ UNCHANGED local
       ELSE Panic(p, VacuumEnded(p, "poisoned", local[p].th))
    /\ UNCHANGED <<cache, store, expiring, now, poisoned>>

\* a variant in which the guard outlives the block of the for loop
DropGuard_kept(p) == readers

\* the block around the for loop ends (line 192): the guard of
\* expiring.read() is dropped
DropGuard(p) == readers \ {p}

\* vacuum_sample, lines 183-185: the next sampled index; expiring.get(index)
\* and self.expired(&key) under store.read().  After the last index the
\* guard on expiring is dropped (line 192).
ThreadSafe_vacuum_scan(p) ==
    /\ cache = ThreadSafeKind /\ pc[p] = "vacuum_scan"
    /\ LET l == local[p] IN
       IF l.i > Len(l.samples)
       THEN /\ readers' = DropGuard(p)
            /\ pc' = [pc EXCEPT ![p] = "vacuum_compact"]
            /\ result' = Step(p, "vacuum_unlock")
            /\ UNCHANGED local
       ELSE IF l.samples[l.i] >= Len(expiring)
       THEN /\ local' = [local EXCEPT ![p].i = l.i + 1]
            /\ result' = Step(p, "vacuum_scan")
            /\ UNCHANGED <<pc, readers>>
       ELSE IF ~LockOk("store")
       THEN Panic(p, VacuumEnded(p, "poisoned", l.th))
       ELSE IF expired(store, expiring[l.samples[l.i] + 1], now)
       THEN /\ pc' = [pc EXCEPT ![p] = "vacuum_remove"]
            /\ result' = Step(p, "vacuum_scan")
            /\ UNCHANGED <<local, readers>>
       ELSE /\ local' = [local EXCEPT ![p].i = l.i + 1]
            /\ result' = Step(p, "vacuum_scan")
            /\ UNCHANGED <<pc, readers>>
    /\ UNCHANGED <<cache, store, expiring, now, poisoned>>

\* vacuum_sample, lines 186-188: store.write(), store.remove(key), the index
\* is pushed to expired_indices
ThreadSafe_vacuum_remove(p) ==
    /\ cache = ThreadSafeKind /\ pc[p] = "vacuum_remove"
    /\ LET l == local[p] IN
       IF LockOk("store")
       THEN /\ store' = MapRemove(store, expiring[l.samples[l.i] + 1])
            /\ local' = [local EXCEPT ![p].i = l.i + 1,
                            ![p].expired_indices = Append(l.expired_indices, l.samples[l.i])]
            /\ pc' = [pc EXCEPT ![p] = "vacuum_scan"]
            /\ result' = Step(p, "vacuum_remove")
            /\ UNCHANGED readers
       ELSE /\ Panic(p, VacuumEnded(p, "poisoned", l.th))
            /\ UNCHANGED store
    /\ UNCHANGED <<cache, expiring, now, poisoned>>

\* vacuum_sample, lines 194-195: expiring.write(), then the removals; a
\* Vec::remove that panics does so under the write guard and poisons the
\* lock.  Back in vacuum the while condition is evaluated on the count.
ThreadSafe_vacuum_compact(p) ==
    /\ cache = ThreadSafeKind /\ pc[p] = "vacuum_compact"
    /\ readers = {}
    /\ LET l == local[p]
           r == remove_indices(expiring, l.expired_indices, 1)
       IN  IF ~LockOk("expiring")
           THEN /\ Panic(p, VacuumEnded(p, "poisoned", l.th))
                /\ UNCHANGED <<expiring, poisoned>>
           ELSE IF r.panicked
           THEN /\ Panic(p, VacuumEnded(p, "panicked", l.th))
                /\ expiring' = r.expiring
                /\ poisoned' = poisoned \cup {"expiring"}
           ELSE /\ expiring' = r.expiring
                /\ UNCHANGED poisoned
                /\ IF ratio_exceeds(r.count, l.count, l.th)
                   THEN /\ pc' = [pc EXCEPT ![p] = "vacuum"]
                        /\ local' = [local EXCEPT ![p] =
                                [op |-> "vacuum", count |-> l.count, th |-> l.th,
                                 keys0 |-> l.keys0]]
                        /\ result' = Step(p, "vacuum_compact")
                        /\ UNCHANGED readers
                   ELSE ThreadSafe_vacuum_return(p, l.th)
    /\ UNCHANGED <<cache, store, now>>

ThreadSafeForeground(p) ==
    \/ \E key \in SharedKeys, value \in Values : ThreadSafe_insert(p, key, value)
    \/ \E key \in SharedKeys, value \in Values, ttl \in Ttls : ThreadSafe_insert_ttl(p, key, value, ttl)
    \/ ThreadSafe_insert_ttl_store(p)
    \/ \E key \in SharedKeys : ThreadSafe_get(p, key)
    \/ ThreadSafe_get_fetch(p)

ThreadSafeBackground(p) ==
    \/ \E count \in Counts, th \in Thresholds : ThreadSafe_vacuum(p, count, th)
    \/ ThreadSafe_vacuum_retry(p)
    \/ ThreadSafe_vacuum_lock(p)
    \/ ThreadSafe_vacuum_scan(p)
    \/ ThreadSafe_vacuum_remove(p)
    \/ ThreadSafe_vacuum_compact(p)

ThreadSafeNext ==
    \/ ThreadSafeForeground(Foreground)
    \/ ThreadSafeBackground(Background)

Next ==
    \/ Tick
    \/ HashCacheNext
    \/ ThreadSafeNext

\* either implementation
Spec == Init /\ [][Next]_vars

\* HashCache alone
HashCacheStep ==
    \/ Tick
    \/ HashCacheNext

\* HashCache::new()
InitHashCache == Init /\ cache = HashCacheKind

SpecHashCache == InitHashCache /\ [][HashCacheStep]_vars

\* HashCache with a caller that is not stopped in the middle of vacuum: the
\* while loop goes on to its next turn
SpecHashCacheFair ==
    /\ InitHashCache
    /\ [][HashCacheStep]_vars
    /\ WF_vars(HashCache_vacuum_retry(Main))

\* ThreadSafeHashCache alone
ThreadSafeStep ==
    \/ Tick
    \/ ThreadSafeNext

\* ThreadSafeHashCache::new()
InitThreadSafe == Init /\ cache = ThreadSafeKind

SpecThreadSafe == InitThreadSafe /\ [][ThreadSafeStep]_vars

\* ------------------------------------------------------------- poisoning
\* K and V are the caller's types.  K::hash, K::eq or the drop of the value
\* that HashMap::insert replaces can panic inside store.insert, that is under
\* the guard of store.write() (lines 201-202): the thread unwinds and the
\* store lock is poisoned.
ThreadSafe_insert_panics(p, key) ==
    /\ cache = ThreadSafeKind /\ pc[p] = "idle"
    /\ LockOk("store")
    /\ Panic(p, Ended(p, "insert", "panicked"))
    /\ poisoned' = poisoned \cup {"store"}
    /\ UNCHANGED <<cache, store, expiring, now>>

\* Both threads make every call, so that each kind of call meets each
\* poisoned lock; on one key, with one value, ttl 0 and threshold 0.25.
PoisonKey == "id"
PoisonValue == "secret"
PoisonCounts == {0, 2}
PoisonThreshold == <<1, 4>>

PoisonCalls(p) ==
    \/ ThreadSafe_insert(p, PoisonKey, PoisonValue)
    \/ ThreadSafe_insert_panics(p, PoisonKey)
    \/ ThreadSafe_insert_ttl(p, PoisonKey, PoisonValue, 0)
    \/ ThreadSafe_insert_ttl_store(p)
    \/ ThreadSafe_get(p, PoisonKey)
    \/ ThreadSafe_get_fetch(p)
    \/ \E count \in PoisonCounts : ThreadSafe_vacuum(p, count, PoisonThreshold)
    \/ ThreadSafe_vacuum_retry(p)
    \/ ThreadSafe_vacuum_lock(p)
    \/ ThreadSafe_vacuum_scan(p)
    \/ ThreadSafe_vacuum_remove(p)
    \/ ThreadSafe_vacuum_compact(p)

PoisonStep ==
    \/ Tick
    \/ PoisonCalls(Foreground)
    \/ PoisonCalls(Background)

SpecPoison == InitThreadSafe /\ [][PoisonStep]_vars

\* ---------------------------------------------- tests::threadsafe_cache_e2e
\* The scenario of the end-to-end test: the foreground thread makes one
\* insert_ttl and is done; the background thread calls vacuum(10, 0.25) again
\* and again.  With at most one candidate a pass removes at most one entry,
\* 1/10 is not above 0.25, and the while loop never takes a second turn.
E2EKey == "id"
E2EValue == "secret"
E2ECount == 10
E2EThreshold == <<1, 4>>

E2E_insert_ttl == \E ttl \in Ttls : ThreadSafe_insert_ttl(Foreground, E2EKey, E2EValue, ttl)
E2E_insert_ttl_store == ThreadSafe_insert_ttl_store_then(Foreground, "done")
E2E_vacuum == ThreadSafe_vacuum(Background, E2ECount, E2EThreshold)

E2EForeground ==
    \/ E2E_insert_ttl
    \/ E2E_insert_ttl_store

E2EBackground ==
    \/ E2E_vacuum
    \/ ThreadSafe_vacuum_lock(Background)
    \/ ThreadSafe_vacuum_scan(Background)
    \/ ThreadSafe_vacuum_remove(Background)
    \/ ThreadSafe_vacuum_compact(Background)

E2EStep ==
    \/ Tick
    \/ E2EForeground
    \/ E2EBackground

\* both threads are scheduled fairly
SpecE2E ==
    /\ InitThreadSafe
    /\ [][E2EStep]_vars
    /\ WF_vars(E2EForeground)
    /\ WF_vars(E2EBackground)

\* ================================================================= claims
\* The claims state expiry in their own words, not through `expired`.
Range(seq) == {seq[i] : i \in 1..Len(seq)}
\* the entry is Persistent, or its elapsed time at t is <= its ttl
Live(entry, t) ==
    \/ entry.expires.kind = "Persistent"
    \/ (t - entry.expires.inserted) <= entry.expires.ttl
\* the key has no entry, or a TTL entry whose elapsed time at t is > its ttl
Gone(st, key, t) == key \notin DOMAIN st \/ ~Live(st[key], t)
ThresholdInOpenInterval(th) == 0 < th[1] /\ th[1] < th[2]
\* the step stores a new entry for key
Overwrites(key) == result'.op \in {"insert", "insert_ttl"} /\ result'.key = key
VacuumStep == result'.op \in {"vacuum", "vacuum_sample"}
VacuumOver == result.op = "vacuum" /\ result.status # "assert_failed"

\* C1: In HashCache no step of vacuum removes (or changes) a store entry that
\* is Persistent or whose elapsed time since insertion is <= its ttl.
C1_VacuumKeepsLiveEntries ==
    [][VacuumStep =>
        \A k \in DOMAIN store :
            Live(store[k], now) => k \in DOMAIN store' /\ store'[k] = store[k]]_vars

\* A vacuum that removed an expired entry has returned, and a TTL entry that
\* is exactly at its ttl, tracked in the candidate list, is still stored.
C1_Witness ==
    /\ VacuumOver /\ result.status = "returned" /\ result.e0 >= 1
    /\ \E k \in DOMAIN store :
        /\ store[k].expires.kind = "Expires"
        /\ now - store[k].expires.inserted = store[k].expires.ttl
        /\ k \in Range(expiring)

C3_VacuumRemovesExactlyExpired ==
    (VacuumOver /\ result.count = result.n0 /\ result.at = now) =>
        /\ result.status = "returned"
        /\ Len(expiring) = result.n0 - result.e0
        /\ \A k \in result.keys0 : k \notin DOMAIN store

\* C4: In HashCache, with no time passing during the call, vacuum(count, th)
\* with count >= 1 on a candidate list whose entries are all expired or
\* absent returns normally with the list empty and none of the keys stored.
C4_AllExpiredListEmptied ==
    (VacuumOver /\ result.count >= 1 /\ result.e0 = result.n0 /\ result.at = now) =>
        /\ result.status = "returned"
        /\ expiring = <<>>
        /\ \A k \in result.keys0 : k \notin DOMAIN store

\* C5 as claimed: after a get that returned a miss the key is absent from the
\* store.
C5_MissEvicts ==
    (result.op = "get" /\ ~result.ret) => result.key \notin DOMAIN store

\* C5 as amended: get never evicts; it leaves the store and the candidate
\* list exactly as they were, hit or miss.
C5_GetLeavesStore ==
    [][result'.op = "get" => store' = store /\ expiring' = expiring]_vars

\* A HashCache get has just missed on an entry past its ttl, and the entry is
\* still in the store.
C5_Witness ==
    /\ cache = HashCacheKind
    /\ result.op = "get" /\ ~result.ret
    /\ result.key \in DOMAIN store
    /\ ~Live(store[result.key], now)

\* C6: In HashCache a TTL entry stays stored while elapsed <= ttl unless it is
\* overwritten, and get on a stored TTL entry hits, passing its value to the
\* consumer, iff elapsed <= ttl (so also at elapsed = ttl), and misses iff
\* elapsed > ttl.
C6_StrictExpiry ==
    [][\A k \in DOMAIN store :
        store[k].expires.kind = "Expires" =>
            /\ (Live(store[k], now) /\ ~Overwrites(k)) =>
                    k \in DOMAIN store' /\ store'[k] = store[k]
            /\ (result'.op = "get" /\ result'.key = k) =>
                    /\ result'.ret = Live(store[k], now)
                    /\ result'.ret => result'.consumed = <<store[k].value>>]_vars

\* A get has just hit on a TTL entry with a positive ttl at the exact instant
\* its ttl elapsed.
C6_Witness ==
    /\ cache = HashCacheKind
    /\ result.op = "get" /\ result.ret
    /\ store[result.key].expires.kind = "Expires"
    /\ store[result.key].expires.ttl > 0
    /\ now - store[result.key].expires.inserted = store[result.key].expires.ttl

\* C7: In HashCache an entry stored by insert stays in the store, unchanged,
\* through every step that is not an insert or insert_ttl of its key, and
\* every get of its key returns true and passes exactly its value.
C7_PersistentAlwaysHits ==
    [][\A k \in DOMAIN store :
        store[k].expires.kind = "Persistent" =>
            \/ Overwrites(k)
            \/ /\ k \in DOMAIN store' /\ store'[k] = store[k]
               /\ (result'.op = "get" /\ result'.key = k) =>
                    result'.ret /\ result'.consumed = <<store[k].value>>]_vars

\* A get has just hit on a Persistent entry whose key is still in the
\* candidate list from an earlier insert_ttl, at the end of time.
C7_Witness ==
    /\ cache = HashCacheKind
    /\ result.op = "get" /\ result.ret
    /\ store[result.key].expires.kind = "Persistent"
    /\ result.key \in Range(expiring)
    /\ now = MaxTime

\* the step is thread p calling get(k): it completes at once, or goes on to
\* fetch the value
GetCalled(p, k) ==
    /\ pc[p] = "idle"
    /\ \/ result'.op = "get" /\ result'.thread = p /\ result'.key = k
       \/ pc'[p] = "get_fetch" /\ local'[p].key = k

\* C8: In both caches a get that returns true has called the consumer exactly
\* once and one that returns false has not called it; a get called on a key
\* that is absent or expired returns false; and such a key stays absent or
\* expired until an insert or insert_ttl of it.
C8_ConsumerOnHitOnly ==
    [][/\ result'.op = "get" =>
            Len(result'.consumed) = (IF result'.ret THEN 1 ELSE 0)
       /\ \A k \in Keys :
            Gone(store, k, now) =>
                /\ \A p \in Threads(cache) :
                    GetCalled(p, k) => result'.op = "get" /\ ~result'.ret
                /\ Gone(store', k, now') \/ Overwrites(k)]_vars

\* A ThreadSafeHashCache get has just missed on an entry that is past its ttl
\* and still stored, without calling the consumer.
C8_Witness ==
    /\ cache = ThreadSafeKind
    /\ result.op = "get" /\ ~result.ret /\ result.consumed = <<>>
    /\ result.key \in DOMAIN store

VacuumPcs == {"vacuum", "vacuum_lock", "vacuum_scan", "vacuum_remove", "vacuum_compact"}

\* C9: In both caches a vacuum call ends in the assertion failure iff its
\* retry_threshold is <= 0 or >= 1, no vacuum is ever past its asserts with
\* such a threshold, and the failing call leaves the store and the candidate
\* list as they were.
C9_ThresholdAssertedFirst ==
    [][/\ result'.op = "vacuum" =>
            /\ (result'.status = "assert_failed") = ~ThresholdInOpenInterval(result'.th)
            /\ result'.status = "assert_failed" => store' = store /\ expiring' = expiring
       /\ \A p \in Threads(cache) :
            pc'[p] \in VacuumPcs => ThresholdInOpenInterval(local'[p].th)]_vars

\* A vacuum with retry_threshold 1.0 has just failed its assert on a cache
\* that holds an expired entry in the store and in the candidate list.
C9_Witness ==
    /\ result.op = "vacuum" /\ result.status = "assert_failed" /\ result.th = <<1, 1>>
    /\ \E k \in DOMAIN store : ~Live(store[k], now) /\ k \in Range(expiring)

\* C10: In both caches insert and insert_ttl return Some(the value the store
\* held for the key) when it held an entry, whatever its expiration state,
\* and None when it held none; afterwards the store holds the new value,
\* Persistent for insert, Expires{now, ttl} for insert_ttl.
C10_InsertReturnsPrevious ==
    [][result'.op \in {"insert", "insert_ttl"} =>
        LET k == result'.key IN
        /\ result'.ret = (IF k \in DOMAIN store THEN <<store[k].value>> ELSE <<>>)
        /\ k \in DOMAIN store'
        /\ store'[k].value = result'.value
        /\ store'[k].expires =
                (IF result'.op = "insert"
                 THEN [kind |-> "Persistent"]
                 ELSE [kind |-> "Expires", inserted |-> now, ttl |-> result'.ttl])]_vars

\* An insert_ttl has just returned the other value, which the store held for
\* the key, after time has passed.
C10_Witness ==
    /\ result.op = "insert_ttl"
    /\ result.ret # <<>> /\ result.ret # <<result.value>>
    /\ now >= 1

\* C11: In the end-to-end scenario (one insert_ttl of k by the foreground,
\* vacuum(10, 0.25) over and over by the background, fair scheduling) every
\* vacuum call returns; a call made when k was stored with its ttl elapsed
\* returns with no entry for k in the candidate list; and once k's ttl has
\* elapsed the candidate list eventually holds no entry for k.
C11_E2EVacuumed ==
    /\ [][(pc[Background] = "vacuum_compact" /\ pc'[Background] # "vacuum_compact") =>
            /\ pc'[Background] = "idle"
            /\ \A k \in local[Background].keys0 : k \notin Range(expiring')]_vars
    /\ (pc[Background] # "idle") ~> (pc[Background] = "idle")
    /\ (E2EKey \in DOMAIN store /\ ~Live(store[E2EKey], now)) ~>
            (E2EKey \notin Range(expiring))

\* The foreground is done, and a vacuum that was called when k was stored
\* with its ttl elapsed has removed k from the store and is about to take k's
\* entry out of the candidate list.
C11_Witness ==
    /\ pc[Foreground] = "done"
    /\ pc[Background] = "vacuum_compact"
    /\ E2EKey \in local[Background].keys0
    /\ local[Background].expired_indices = <<0>>
    /\ expiring = <<E2EKey>>
    /\ E2EKey \notin DOMAIN store

\* the locks that the step of thread p acquires: told from where p is and,
\* for a call that begins, from which call the step reports
Acquires(p) ==
    IF pc[p] = "idle"
    THEN IF result'.op \in {"insert", "get", "get_check"} THEN {"store"}
         ELSE IF result'.op = "panic"
         THEN (IF result'.call = "insert_ttl" THEN {"expiring"} ELSE {"store"})
         ELSE IF result'.op \in {"insert_ttl_push", "vacuum_sample"} THEN {"expiring"}
         ELSE IF result'.op = "vacuum" /\ result'.status = "poisoned" THEN {"expiring"}
         ELSE {}
    ELSE IF pc[p] \in {"insert_ttl_store", "get_fetch", "vacuum_remove"} THEN {"store"}
    ELSE IF pc[p] \in {"vacuum", "vacuum_lock", "vacuum_compact"} THEN {"expiring"}
    ELSE IF pc[p] = "vacuum_scan"
              /\ local[p].i <= Len(local[p].samples)
              /\ local[p].samples[local[p].i] < Len(expiring)
    THEN {"store"}
    ELSE {}

\* the step ends its call on expect("lock poisoned")
PoisonPanic ==
    /\ result'.op \in {"panic", "vacuum"}
    /\ result'.status = "poisoned"

\* C12: In ThreadSafeHashCache a step that acquires a lock poisoned by a
\* writer that panicked ends its thread on the poisoned lock and leaves the
\* store and the candidate list as they were; a step that acquires no
\* poisoned lock never fails on poisoning.
C12_PoisonedLockIsFatal ==
    [][\A p \in Threads(cache) :
        result'.thread = p =>
            IF Acquires(p) \cap poisoned # {}
            THEN /\ PoisonPanic
                 /\ pc'[p] = "panicked"
                 /\ store' = store /\ expiring' = expiring
            ELSE ~PoisonPanic]_vars

\* A vacuum has just failed on the candidate-list lock, which the other
\* thread poisoned by panicking in its removals; the store lock is sound.
C12_Witness ==
    /\ result.op = "vacuum" /\ result.status = "poisoned"
    /\ poisoned = {"expiring"}
    /\ \A p \in Threads(cache) : pc[p] = "panicked"

\* the list v without the entries at the 0-based positions in marked
RECURSIVE DeleteAt(_, _)
DeleteAt(v, marked) ==
    IF v = <<>>
    THEN <<>>
    ELSE LET n == Len(v)
             front == DeleteAt(SubSeq(v, 1, n - 1), marked)
         IN  IF (n - 1) \in marked THEN front ELSE Append(front, v[n])

\* the sampled positions whose key is expired or absent
MarkedBy(samples) == {i \in Range(samples) : Gone(store, expiring[i + 1], now)}
AnySamples == UNION {Samples[Len(expiring)][a] : a \in 0..Len(expiring)}

\* C13: In HashCache a vacuum pass does not abort, and it leaves the
\* candidate list it found with exactly the sampled positions whose keys
\* were expired or absent deleted, the other entries kept in order,
\* whatever the set and the order of the sampled indices.
C13_PassDeletesMarkedPositions ==
    [][(cache = HashCacheKind /\ VacuumStep
            /\ ~(result'.op = "vacuum" /\ result'.status = "assert_failed")) =>
        /\ pc'[Main] # "panicked"
        /\ \E samples \in AnySamples :
                expiring' = DeleteAt(expiring, MarkedBy(samples))]_vars

\* C14: In HashCache, between calls, every key whose store entry is in
\* Expires state has at least one entry in the candidate list.
C14_ExpiresKeysAreCandidates ==
    (cache = HashCacheKind /\ pc[Main] = "idle") =>
        \A k \in DOMAIN store :
            store[k].expires.kind = "Expires" => k \in Range(expiring)

\* the step made a vacuum_sample pass of HashCache::vacuum and did not abort
PassMade ==
    /\ cache = HashCacheKind
    /\ \/ result'.op = "vacuum_sample"
       \/ result'.op = "vacuum" /\ result'.status = "returned" /\ result'.passes >= 1

\* C15: After a pass vacuum runs another pass iff
\* (entries removed by the pass) / amount > retry_threshold, where
\* amount = min(count, length of the candidate list before the pass), and it
\* stops when amount is 0.
C15_RetryOnRatioOfAmount ==
    [][PassMade =>
        LET l == IF result'.op = "vacuum" THEN result' ELSE local'[Main]
            amount == Amount(l.count, Len(expiring))
            removed == Len(expiring) - Len(expiring')
        IN  (pc'[Main] = "vacuum") <=>
                (amount # 0 /\ removed * l.th[2] > l.th[1] * amount)]_vars

\* C16: In HashCache every pass of vacuum that is followed by another pass
\* has shortened the candidate list by at least one entry, a call never
\* makes more than (length of the candidate list at the call) + 1 passes,
\* and a call in its loop comes to an end.
C16_VacuumTerminates ==
    /\ [][(cache = HashCacheKind /\ VacuumStep /\ pc'[Main] = "vacuum") =>
            Len(expiring') < Len(expiring)]_vars
    /\ [](pc[Main] = "vacuum" => local[Main].passes <= local[Main].n0)
    /\ [](VacuumOver => result.passes <= result.n0 + 1)
    /\ (pc[Main] = "vacuum") ~> (pc[Main] # "vacuum")

\* A vacuum has returned after the most passes it can make on a candidate
\* list of at least two entries: one more than the length of the list.
C16_Witness ==
    /\ VacuumOver /\ result.status = "returned"
    /\ result.n0 >= 2
    /\ result.passes = result.n0 + 1

\* C17: In both caches get and insert leave the candidate list unchanged,
\* insert_ttl(k, ..) appends exactly one k at its end whether or not k is in
\* it already, and nothing but insert_ttl and vacuum changes the list.
C17_CandidateListFrame ==
    [][/\ result'.op \in {"get", "get_check", "insert"} => expiring' = expiring
       /\ result'.op = "insert_ttl" =>
            expiring' = (IF cache = HashCacheKind
                         THEN Append(expiring, result'.key) ELSE expiring)
       /\ result'.op = "insert_ttl_push" =>
            expiring' = Append(expiring, local'[result'.thread].key)
       /\ expiring' # expiring =>
            result'.op \in {"insert_ttl", "insert_ttl_push",
                            "vacuum", "vacuum_sample", "vacuum_compact"}]_vars

\* A HashCache insert_ttl has just appended a second entry for a key that
\* was in the candidate list already.
C17_Witness ==
    /\ cache = HashCacheKind
    /\ result.op = "insert_ttl"
    /\ Len(expiring) >= 2
    /\ expiring[Len(expiring)] = result.key
    /\ result.key \in Range(SubSeq(expiring, 1, Len(expiring) - 1))

\* the steps by which thread p goes on with the call it is in.
Continue(p) ==
    \/ ThreadSafe_insert_ttl_store(p)
    \/ ThreadSafe_get_fetch(p)
    \/ ThreadSafe_vacuum_retry(p)
    \/ ThreadSafe_vacuum_lock(p)
    \/ ThreadSafe_vacuum_scan(p)
    \/ ThreadSafe_vacuum_remove(p)
    \/ ThreadSafe_vacuum_compact(p)

InCall(p) == pc[p] \notin {"idle", "done", "panicked"}

\* C18: In ThreadSafeHashCache no interleaving of the calls deadlocks.  A
\* thread holds the candidate-list lock exactly while it is in the for loop
\* of vacuum_sample, so it holds none where it acquires one; a thread that
\* holds the lock can always take its next step; and a thread whose next
\* step is not possible waits for a thread that holds the lock.  (The store
\* lock is held within single steps only.)
C18_NoDeadlock ==
    cache = ThreadSafeKind =>
        \A p \in Threads(cache) :
            /\ (p \in readers) <=> (pc[p] \in {"vacuum_scan", "vacuum_remove"})
            /\ p \in readers => ENABLED Continue(p)
            /\ (InCall(p) /\ ~ENABLED Continue(p)) => readers \ {p} # {}

\* One thread is at the removals of vacuum_sample and waits for the write
\* lock of the candidate list while the other thread, in its for loop,
\* holds the read lock.
C18_Witness ==
    /\ cache = ThreadSafeKind
    /\ \E p \in Threads(cache) :
        /\ pc[p] = "vacuum_compact"
        /\ ~ENABLED Continue(p)
        /\ readers \ {p} # {}

\* key k is stored by insert_ttl with ttl = 0
ZeroTtl(k) ==
    /\ k \in DOMAIN store
    /\ store[k].expires.kind = "Expires"
    /\ store[k].expires.ttl = 0

\* the step is a HashCache vacuum call whose first pass samples every entry
\* of the candidate list
FullFirstPass ==
    /\ cache = HashCacheKind /\ pc[Main] = "idle" /\ VacuumStep
    /\ ~(result'.op = "vacuum" /\ result'.status = "assert_failed")
    /\ LET count == IF result'.op = "vacuum" THEN result'.count ELSE local'[Main].count
       IN  count >= 1 /\ count >= Len(expiring)

\* C19 as claimed: a key stored with ttl = 0 is expired at the very next
\* check, whatever the time elapsed: get returns false without calling the
\* consumer, and a vacuum pass that samples it removes it.
C19_ZeroTtlExpiresAtOnce ==
    [][/\ (result'.op = "get" /\ ZeroTtl(result'.key)) =>
            ~result'.ret /\ result'.consumed = <<>>
       /\ FullFirstPass =>
            \A k \in Range(expiring) : ZeroTtl(k) => k \notin DOMAIN store']_vars

\* C19 as amended: a key stored with ttl = 0 is expired at every check made
\* after some time has elapsed and is still valid at a check made with no
\* time elapsed: get misses iff elapsed > 0 and hits with the value at
\* elapsed = 0, and a vacuum pass that samples it removes it iff elapsed > 0.
C19_ZeroTtlExpiresOnceTimePassed ==
    [][/\ (result'.op = "get" /\ ZeroTtl(result'.key)) =>
            /\ result'.ret = (now = store[result'.key].expires.inserted)
            /\ result'.consumed =
                    (IF result'.ret THEN <<store[result'.key].value>> ELSE <<>>)
       /\ FullFirstPass =>
            \A k \in Range(expiring) :
                ZeroTtl(k) =>
                    ((k \in DOMAIN store') = (now = store[k].expires.inserted))]_vars

\* A HashCache get has just hit on an entry stored with ttl = 0, no time
\* having elapsed since its insertion.
C19_Witness ==
    /\ cache = HashCacheKind
    /\ result.op = "get" /\ result.ret
    /\ ZeroTtl(result.key)
    /\ now = store[result.key].expires.inserted

====
